---- MODULE Spec2Model ----
(***************************************************************************)
(* A model of get_tcia.py: the manifest parser (parse_manifest), the       *)
(* series fetcher (download_series) and the orchestrator                   *)
(* (download_from_manifest) with its process pool.                         *)
(*                                                                         *)
(* Text is modelled as a sequence of tokens.  A token is "=", a white      *)
(* space character, a single digit or sign, or a word that holds neither   *)
(* "=" nor white space (a key name, a series identifier).  A line is a     *)
(* sequence of tokens, a manifest a sequence of lines.                     *)
(***************************************************************************)
EXTENDS Integers, Sequences, FiniteSets, TLC

\* ---------------------------------------------------------------- bounds
MaxSeries == 2
MaxRetries == 1
MaxJobs == 2
MaxLines == 3

\* --------------------------------------------------------------- strings
Whitespace == {" ", "\t"}

Digits == <<"0", "1", "2", "3", "4", "5", "6", "7", "8", "9">>

IsDigit(c) == \E i \in 1..Len(Digits) : Digits[i] = c

DigitVal(c) == (CHOOSE i \in 1..Len(Digits) : Digits[i] = c) - 1

RECURSIVE lstrip(_)
lstrip(s) == IF s # <<>> /\ Head(s) \in Whitespace THEN lstrip(Tail(s)) ELSE s

RECURSIVE rstrip(_)
rstrip(s) ==
  IF s # <<>> /\ s[Len(s)] \in Whitespace
  THEN rstrip(SubSeq(s, 1, Len(s) - 1))
  ELSE s

\* str.strip()
strip(s) == rstrip(lstrip(s))

\* c in s
Contains(s, c) == \E i \in 1..Len(s) : s[i] = c

\* a split at the last c of the text
partitionLast(s, c) ==
  IF Contains(s, c)
  THEN LET i == CHOOSE i \in 1..Len(s) :
                  s[i] = c /\ \A k \in (i + 1)..Len(s) : s[k] # c
       IN <<SubSeq(s, 1, i - 1), <<c>>, SubSeq(s, i + 1, Len(s))>>
  ELSE <<s, <<>>, <<>>>>

\* str.partition(c): <<before, separator, after>>, split at the first c
partition(s, c) ==
  IF Contains(s, c)
  THEN LET i == CHOOSE i \in 1..Len(s) :
                  s[i] = c /\ \A k \in 1..(i - 1) : s[k] # c
       IN <<SubSeq(s, 1, i - 1), <<c>>, SubSeq(s, i + 1, Len(s))>>
  ELSE <<s, <<>>, <<>>>>

\* the text int() accepts: an optional sign and at least one digit
IsIntLiteral(s) ==
  LET body == IF s # <<>> /\ Head(s) \in {"-", "+"} THEN Tail(s) ELSE s
  IN body # <<>> /\ \A i \in 1..Len(body) : IsDigit(body[i])

RECURSIVE DecimalVal(_)
DecimalVal(s) ==
  IF s = <<>> THEN 0
  ELSE 10 * DecimalVal(SubSeq(s, 1, Len(s) - 1)) + DigitVal(s[Len(s)])

\* int(s) of an accepted text
IntOf(s) ==
  IF Head(s) = "-" THEN 0 - DecimalVal(Tail(s))
  ELSE IF Head(s) = "+" THEN DecimalVal(Tail(s))
  ELSE DecimalVal(s)

\* ------------------------------------------------------- parse_manifest
ListKey == <<"ListOfSeriesToDownload">>
RetryKey == <<"noOfrRetry">>

\* current_key = None, manifest_data = {}
ParseInit == [data |-> <<>>, current_key |-> [set |-> FALSE, key |-> <<>>]]

\* the truth value of current_key: None and "" are false
Truthy(ck) == ck.set /\ ck.key # <<>>

\* a loop body that keeps the values a key had when the key comes again
ParseLineAccumulates(st, raw) ==
  LET line == strip(raw) IN
  IF Contains(line, "=")
  THEN LET p == partition(line, "=")
           key == strip(p[1])
           value == p[3]
           old == IF key \in DOMAIN st.data THEN st.data[key] ELSE <<>>
       IN [data |-> (key :> (old \o (IF value # <<>> THEN <<strip(value)>> ELSE <<>>)))
                       @@ st.data,
           current_key |-> [set |-> TRUE, key |-> key]]
  ELSE IF Truthy(st.current_key) /\ line # <<>>
       THEN [st EXCEPT !.data[st.current_key.key] = Append(@, line)]
       ELSE st

\* the body of the loop over the lines of the file
ParseLine(st, raw) ==
  LET line == strip(raw) IN
  IF Contains(line, "=")
  THEN LET p == partition(line, "=")
           key == strip(p[1])
           value == p[3]
       IN [data |-> (key :> (IF value # <<>> THEN <<strip(value)>> ELSE <<>>))
                       @@ st.data,
           current_key |-> [set |-> TRUE, key |-> key]]
  ELSE IF Truthy(st.current_key) /\ line # <<>>
       THEN [st EXCEPT !.data[st.current_key.key] = Append(@, line)]
       ELSE st

RECURSIVE ParseLines(_, _)
ParseLines(st, lines) ==
  IF lines = <<>> THEN st ELSE ParseLines(ParseLine(st, Head(lines)), Tail(lines))

parse_manifest(lines) == ParseLines(ParseInit, lines).data

\* manifest_data.get('ListOfSeriesToDownload', [])
SeriesIdsToDownload(data) == IF ListKey \in DOMAIN data THEN data[ListKey] ELSE <<>>

\* int(manifest_data.get('noOfrRetry', 0)[0]): the value, or the exception
NoOfRetries(data) ==
  IF RetryKey \notin DOMAIN data THEN [ok |-> FALSE, type |-> "TypeError", val |-> 0]
  ELSE IF data[RetryKey] = <<>> THEN [ok |-> FALSE, type |-> "IndexError", val |-> 0]
  ELSE IF ~IsIntLiteral(data[RetryKey][1])
       THEN [ok |-> FALSE, type |-> "ValueError", val |-> 0]
  ELSE [ok |-> TRUE, type |-> "none", val |-> IntOf(data[RetryKey][1])]

\* ------------------------------------------------------------ the inputs
SeriesIds == {"1.2.3", "4.5.6"}

IdLists == UNION {[1..n -> SeriesIds] : n \in 0..MaxSeries}

RECURSIVE Decimal(_)
Decimal(n) == IF n < 10 THEN <<Digits[n + 1]>> ELSE Append(Decimal(n \div 10), Digits[(n % 10) + 1])

IdLines(ids) == [i \in 1..Len(ids) |-> <<ids[i]>>]

\* the retry-count entry: none, no value, not a number, a number
RetryBlocks ==
  {<<>>, << <<"noOfrRetry", "=">> >>, << <<"noOfrRetry", "=", "four">> >>}
    \cup {<< <<"noOfrRetry", "=">> \o Decimal(n) >> : n \in 0..MaxRetries}

\* the series list: no key, or the key and one identifier on each line after it
ListBlocks ==
  {<<>>}
    \cup {<< <<"ListOfSeriesToDownload", "=">> >> \o IdLines(ids) : ids \in IdLists}

Manifests ==
  {r \o << <<"manifestVersion", "=", "3.0">>, <<>> >> \o l :
     r \in RetryBlocks, l \in ListBlocks}

ManifestFiles ==
  {[kind |-> "missing", lines |-> <<>>], [kind |-> "dir", lines |-> <<>>]}
    \cup {[kind |-> "file", lines |-> m] : m \in Manifests}

\* the metadata header of a response: absent, or holding the list Result.Type
Metadatas ==
  {[present |-> FALSE, Type |-> <<>>],
   [present |-> TRUE, Type |-> <<>>],
   [present |-> TRUE, Type |-> <<"ZIP">>],
   [present |-> TRUE, Type |-> <<"DICOM">>]}

NoResponse == [connected |-> FALSE, status |-> 0, metadata |-> [present |-> FALSE, Type |-> <<>>]]

\* what one request can bring: no connection, an error status, or status 200
\* with some metadata header
Responses ==
  {NoResponse, [connected |-> TRUE, status |-> 404, metadata |-> [present |-> FALSE, Type |-> <<>>]]}
    \cup {[connected |-> TRUE, status |-> 200, metadata |-> m] : m \in Metadatas}

\* ------------------------------------------------------------- the state
VARIABLES
  manifest_path,            \* the file at manifest_path: its kind and lines
  njobs,                    \* max_workers
  folder,                   \* whether destination_folder exists
  copied,                   \* whether destination_folder holds the manifest
  files,                    \* the file at each destination path
  pc_main,                  \* where download_from_manifest is
  error,                    \* what download_from_manifest raised, and where
  manifest_data,            \* the mapping parse_manifest returned
  series_ids_to_download,
  no_of_retries,
  jobs,                     \* the futures: one download_series call each
  collected                 \* the futures whose result() was taken

vars == <<manifest_path, njobs, folder, copied, files, pc_main, error,
          manifest_data, series_ids_to_download, no_of_retries, jobs, collected>>

\* a destination that forgets the identifier
DestFileFixed(series_id) == <<"series", ".zip">>

\* destination_folder / f"{series_id}.zip", as the name in the folder
DestFile(series_id) == series_id \o <<".zip">>

Paths == {DestFile(<<id>>) : id \in SeriesIds}

NoError == [type |-> "none", line |-> 0]

Init ==
  /\ manifest_path \in ManifestFiles
  /\ njobs \in 1..MaxJobs
  /\ folder \in BOOLEAN
  /\ copied = FALSE
  /\ files \in [Paths -> {"absent", "complete"}]
  /\ (~folder => \A p \in Paths : files[p] = "absent")
  /\ pc_main = "mkdir"
  /\ error = NoError
  /\ manifest_data = <<>>
  /\ series_ids_to_download = <<>>
  /\ no_of_retries = 0
  /\ jobs = <<>>
  /\ collected = {}

\* ------------------------------------------------ download_from_manifest
Raise(type, line) ==
  /\ pc_main' = "raised"
  /\ error' = [type |-> type, line |-> line]

\* destination_folder.mkdir(parents=True), which fails on a folder that exists
MkdirNoExistOk ==
  /\ pc_main = "mkdir"
  /\ IF folder
     THEN Raise("FileExistsError", 102) /\ UNCHANGED folder
     ELSE folder' = TRUE /\ pc_main' = "is_file" /\ UNCHANGED error
  /\ UNCHANGED <<manifest_data, manifest_path, njobs, copied, files,
                 series_ids_to_download, no_of_retries, jobs, collected>>

\* destination_folder.mkdir(exist_ok=True, parents=True)
Mkdir ==
  /\ pc_main = "mkdir"
  /\ folder' = TRUE
  /\ pc_main' = "is_file"
  /\ UNCHANGED <<manifest_data, manifest_path, njobs, copied, files, error,
                 series_ids_to_download, no_of_retries, jobs, collected>>

\* if not manifest_path.is_file(): raise ValueError
IsFile ==
  /\ pc_main = "is_file"
  /\ IF manifest_path.kind = "file"
     THEN pc_main' = "copy" /\ UNCHANGED error
     ELSE Raise("ValueError", 105)
  /\ UNCHANGED <<manifest_data, manifest_path, njobs, folder, copied, files,
                 series_ids_to_download, no_of_retries, jobs, collected>>

\* shutil.copy(manifest_path, destination_folder), which can fail
Copy ==
  /\ pc_main = "copy"
  /\ \E ok \in BOOLEAN :
       IF ok
       THEN copied' = TRUE /\ pc_main' = "parse" /\ UNCHANGED error
       ELSE Raise("OSError", 108) /\ UNCHANGED copied
  /\ UNCHANGED <<manifest_data, manifest_path, njobs, folder, files,
                 series_ids_to_download, no_of_retries, jobs, collected>>

\* a parse step that hands the series to the pool before it reads the retry count
ParseSubmitsFirst ==
  /\ pc_main = "parse"
  /\ LET data == parse_manifest(manifest_path.lines)
         r == NoOfRetries(data)
         ids == SeriesIdsToDownload(data)
     IN /\ manifest_data' = data
        /\ series_ids_to_download' = ids
        /\ jobs' = [i \in 1..Len(ids) |->
                      [series_id |-> ids[i], dest_file |-> ids[i] \o <<".zip">>,
                       max_retries |-> 0, pc |-> "pending", retry_count |-> 0,
                       requests |-> 0, attempts |-> 0, sleeps |-> 0,
                       response |-> [connected |-> FALSE, status |-> 0,
                                     metadata |-> [present |-> FALSE, Type |-> <<>>]],
                       result |-> <<>>, ret_line |-> 0, exc |-> "none"]]
        /\ IF r.ok
           THEN no_of_retries' = r.val /\ pc_main' = "as_completed" /\ UNCHANGED error
           ELSE /\ pc_main' = "raised"
                /\ error' = [type |-> r.type, line |-> 114]
                /\ UNCHANGED no_of_retries
  /\ UNCHANGED <<manifest_path, njobs, folder, copied, files, collected>>

\* parse_manifest (whose open can fail), the series list, the retry count
Parse ==
  /\ pc_main = "parse"
  /\ \E readable \in BOOLEAN :
       IF ~readable
       THEN /\ Raise("OSError", 22)
            /\ UNCHANGED <<manifest_data, series_ids_to_download, no_of_retries>>
       ELSE LET data == parse_manifest(manifest_path.lines)
                r == NoOfRetries(data)
            IN /\ manifest_data' = data
               /\ series_ids_to_download' = SeriesIdsToDownload(data)
               /\ IF r.ok
                  THEN no_of_retries' = r.val /\ pc_main' = "submit" /\ UNCHANGED error
                  ELSE Raise(r.type, 114) /\ UNCHANGED no_of_retries
  /\ UNCHANGED <<manifest_path, njobs, folder, copied, files, jobs, collected>>

\* the arguments and the local state of one download_series call
NewJob(series_id, dest_file, max_retries) ==
  [series_id |-> series_id, dest_file |-> dest_file, max_retries |-> max_retries,
   pc |-> "pending", retry_count |-> 0, requests |-> 0, attempts |-> 0, sleeps |-> 0,
   response |-> NoResponse, result |-> <<>>, ret_line |-> 0, exc |-> "none"]

\* executor.submit(download_series, ...) for the next series identifier
Submit ==
  /\ pc_main = "submit"
  /\ IF Len(jobs) < Len(series_ids_to_download)
     THEN LET series_id == series_ids_to_download[Len(jobs) + 1]
          IN /\ jobs' = Append(jobs, NewJob(series_id, DestFile(series_id), no_of_retries))
             /\ UNCHANGED pc_main
     ELSE pc_main' = "as_completed" /\ UNCHANGED jobs
  /\ UNCHANGED <<manifest_data, manifest_path, njobs, folder, copied, files, error,
                 series_ids_to_download, no_of_retries, collected>>

\* a collection that takes every future for finished
FinishedAlways(j) == TRUE

Finished(j) == jobs[j].pc \in {"returned", "raised"}

\* for future in as_completed(futures): future.result(), which raises what
\* the call raised (the pool is then shut down and the error leaves the with)
Collect(j) ==
  /\ pc_main = "as_completed"
  /\ j \notin collected
  /\ Finished(j)
  /\ IF jobs[j].pc = "raised"
     THEN Raise(jobs[j].exc, 122) /\ UNCHANGED collected
     ELSE collected' = collected \cup {j} /\ UNCHANGED <<pc_main, error>>
  /\ UNCHANGED <<manifest_data, manifest_path, njobs, folder, copied, files,
                 series_ids_to_download, no_of_retries, jobs>>

\* the pool is shut down and 'Done.' is printed
Done ==
  /\ pc_main = "as_completed"
  /\ collected = DOMAIN jobs
  /\ pc_main' = "done"
  /\ UNCHANGED <<manifest_data, manifest_path, njobs, folder, copied, files, error,
                 series_ids_to_download, no_of_retries, jobs, collected>>

\* ------------------------------------------------------ download_series
\* while retry_count <= max_retries
WhileCond(job) == job.retry_count <= job.max_retries

\* an existence check that never finds the file
ExistsNever(dest_file) == FALSE

\* dest_file.exists()
Exists(dest_file) == files[dest_file] # "absent"

\* metadata.get("Result", {}).get("Type", [""])[0]
FileType(metadata) == IF metadata.present THEN metadata.Type[1] ELSE ""

\* the checks of a response without the check of the type tag
AttemptExceptionNoTypeCheck(r) ==
  IF ~r.connected THEN "ConnectionError"
  ELSE IF r.status >= 400 THEN "HTTPError"
  ELSE "none"

\* what the attempt raises on a response before it opens the file
AttemptException(r) ==
  IF ~r.connected THEN "ConnectionError"
  ELSE IF r.status >= 400 THEN "HTTPError"
  ELSE IF r.metadata.present /\ r.metadata.Type = <<>> THEN "IndexError"
  ELSE IF FileType(r.metadata) # "ZIP" THEN "ValueError"
  ELSE "none"

\* except requests.RequestException: the errors of the request only
CaughtRequestsOnly(e) == e \in {"ConnectionError", "HTTPError", "ChunkedEncodingError"}

\* except (ValueError, requests.RequestException): not the errors of the file
CaughtNoOSError(e) ==
  e \in {"ConnectionError", "HTTPError", "ChunkedEncodingError", "IndexError", "ValueError"}

\* except Exception: every error of an attempt is one
Caught(e) ==
  e \in {"ConnectionError", "HTTPError", "IndexError", "ValueError", "OSError",
         "ChunkedEncodingError"}

\* a failure that is not counted
NextRetryCountStuck(retry_count) == retry_count

\* retry_count += 1
NextRetryCount(retry_count) == retry_count + 1

\* return dest_file
Return(job, line) ==
  [job EXCEPT !.pc = "returned", !.result = job.dest_file, !.ret_line = line,
              !.response = NoResponse]

\* an except clause that sleeps before it looks at the retry count
ExceptSleepsFirst(job, e) ==
  IF Caught(e)
  THEN [job EXCEPT !.retry_count = NextRetryCount(job.retry_count),
                   !.response = NoResponse, !.pc = "sleep"]
  ELSE [job EXCEPT !.pc = "raised", !.exc = e, !.response = NoResponse]

\* the except clause: count the failure, then give up or sleep
Except(job, e) ==
  IF Caught(e)
  THEN LET failed == [job EXCEPT !.retry_count = NextRetryCount(job.retry_count),
                                 !.response = NoResponse]
       IN IF failed.retry_count > failed.max_retries
          THEN Return(failed, 85)
          ELSE [failed EXCEPT !.pc = "sleep"]
  ELSE [job EXCEPT !.pc = "raised", !.exc = e, !.response = NoResponse]

\* the head of the loop: one more attempt, or the return after the loop
LoopHead(job) ==
  IF WhileCond(job)
  THEN [job EXCEPT !.pc = "try", !.attempts = @ + 1]
  ELSE Return(job, 85)

Running(j) == jobs[j].pc \notin {"pending", "returned", "raised"}

\* a pool that starts the oldest pending call whatever its workers are doing
StartUnbounded(j) ==
  /\ j \in DOMAIN jobs
  /\ jobs[j].pc = "pending"
  /\ \A k \in 1..(j - 1) : jobs[k].pc # "pending"
  /\ jobs' = [jobs EXCEPT ![j] = LoopHead(@)]
  /\ UNCHANGED <<manifest_data, manifest_path, njobs, folder, copied, files, pc_main, error,
                 series_ids_to_download, no_of_retries, collected>>

\* a free worker of the pool takes the oldest pending call
Start(j) ==
  /\ j \in DOMAIN jobs
  /\ jobs[j].pc = "pending"
  /\ \A k \in 1..(j - 1) : jobs[k].pc # "pending"
  /\ Cardinality({k \in DOMAIN jobs : Running(k)}) < njobs
  /\ jobs' = [jobs EXCEPT ![j] = LoopHead(@)]
  /\ UNCHANGED <<manifest_data, manifest_path, njobs, folder, copied, files, pc_main, error,
                 series_ids_to_download, no_of_retries, collected>>

\* an attempt that looks for the file on the first pass of the loop only
AttemptChecksOnce(j) ==
  /\ j \in DOMAIN jobs
  /\ jobs[j].pc = "try"
  /\ IF jobs[j].retry_count = 0 /\ Exists(jobs[j].dest_file)
     THEN jobs' = [jobs EXCEPT ![j] = Return(@, 53)]
     ELSE \E r \in Responses :
            jobs' = [jobs EXCEPT ![j] = [@ EXCEPT !.pc = "response", !.response = r,
                                                  !.requests = @ + 1]]
  /\ UNCHANGED <<manifest_data, manifest_path, njobs, folder, copied, files, pc_main, error,
                 series_ids_to_download, no_of_retries, collected>>

\* if dest_file.exists(): return dest_file; else requests.get(...): the
\* request is issued and its outcome arrives
Attempt(j) ==
  /\ j \in DOMAIN jobs
  /\ jobs[j].pc = "try"
  /\ IF Exists(jobs[j].dest_file)
     THEN jobs' = [jobs EXCEPT ![j] = Return(@, 53)]
     ELSE \E r \in Responses :
            jobs' = [jobs EXCEPT ![j] = [@ EXCEPT !.pc = "response", !.response = r,
                                                  !.requests = @ + 1]]
  /\ UNCHANGED <<manifest_data, manifest_path, njobs, folder, copied, files, pc_main, error,
                 series_ids_to_download, no_of_retries, collected>>

\* raise_for_status() and the check of the type tag; then
\* dest_file.open("wb"): the file is created or truncated, or the open fails
HandleResponse(j) ==
  /\ j \in DOMAIN jobs
  /\ jobs[j].pc = "response"
  /\ IF AttemptException(jobs[j].response) # "none"
     THEN /\ jobs' = [jobs EXCEPT ![j] = Except(@, AttemptException(@.response))]
          /\ UNCHANGED files
     ELSE \E ok \in BOOLEAN :
            IF ok
            THEN /\ files' = [files EXCEPT ![jobs[j].dest_file] = "partial"]
                 /\ jobs' = [jobs EXCEPT ![j] = [@ EXCEPT !.pc = "stream"]]
            ELSE /\ jobs' = [jobs EXCEPT ![j] = Except(@, "OSError")]
                 /\ UNCHANGED files
  /\ UNCHANGED <<manifest_data, manifest_path, njobs, folder, copied, pc_main, error,
                 series_ids_to_download, no_of_retries, collected>>

\* the chunks are written and the file closed, or the stream breaks
Stream(j) ==
  /\ j \in DOMAIN jobs
  /\ jobs[j].pc = "stream"
  /\ \E ok \in BOOLEAN :
       IF ok
       THEN /\ files' = [files EXCEPT ![jobs[j].dest_file] = "complete"]
            /\ jobs' = [jobs EXCEPT ![j] = Return(@, 72)]
       ELSE /\ files' = [files EXCEPT ![jobs[j].dest_file] = "partial"]
            /\ jobs' = [jobs EXCEPT ![j] = Except(@, "ChunkedEncodingError")]
  /\ UNCHANGED <<manifest_data, manifest_path, njobs, folder, copied, pc_main, error,
                 series_ids_to_download, no_of_retries, collected>>

\* time.sleep(1), then the head of the loop
Sleep(j) ==
  /\ j \in DOMAIN jobs
  /\ jobs[j].pc = "sleep"
  /\ jobs' = [jobs EXCEPT ![j] = LoopHead([@ EXCEPT !.sleeps = @ + 1])]
  /\ UNCHANGED <<manifest_data, manifest_path, njobs, folder, copied, files, pc_main, error,
                 series_ids_to_download, no_of_retries, collected>>

\* --------------------------------------------------------- specification
Main == Mkdir \/ IsFile \/ Copy \/ Parse \/ Submit \/ Done \/ (\E j \in DOMAIN jobs : Collect(j))

Worker(j) ==
  Start(j) \/ Attempt(j) \/ HandleResponse(j) \/ Stream(j) \/ Sleep(j)

Next == Main \/ (\E j \in 1..MaxSeries : Worker(j))

Spec == Init /\ [][Next]_vars

\* every process keeps running: the main process, and each worker's call
FairSpec == Spec /\ WF_vars(Main) /\ \A j \in 1..MaxSeries : WF_vars(Worker(j))

\* --------------------------------------------- the parser on any manifest
\* the kinds of line the loop of parse_manifest tells apart: blank lines,
\* lines without '=' (bare and padded), and lines with '=' (a value, no
\* value, a blank value, a second '=', padding, an empty key, the two keys
\* the orchestrator reads)
LineSet ==
  { <<>>,
    <<" ">>,
    <<"1.2.3">>,
    <<" ", "4.5.6", "\t">>,
    <<"K", "=", "v">>,
    <<"K", "=">>,
    <<"K", "=", " ">>,
    <<"K", "=", "w", "=", "v">>,
    <<" ", "K", " ", "=", " ", "v", " ">>,
    <<"=", "v">>,
    <<"ListOfSeriesToDownload", "=">>,
    <<"ListOfSeriesToDownload", "=", "1.2.3">>,
    <<"noOfrRetry", "=", "1">> }

ManifestTexts == UNION {[1..n -> LineSet] : n \in 0..MaxLines}

\* the orchestrator about to call parse_manifest, on any of these manifests
InitParse ==
  /\ manifest_path \in {[kind |-> "file", lines |-> t] : t \in ManifestTexts}
  /\ njobs = 1
  /\ folder = TRUE
  /\ copied = TRUE
  /\ files = [p \in Paths |-> "absent"]
  /\ pc_main = "parse"
  /\ error = NoError
  /\ manifest_data = <<>>
  /\ series_ids_to_download = <<>>
  /\ no_of_retries = 0
  /\ jobs = <<>>
  /\ collected = {}

ParseSpec == InitParse /\ [][Parse]_vars

\* ================================================================ claims

\* C1: called with a manifest path that is not a regular file, the
\* orchestrator raises with the file system unchanged: no step of such a run
\* creates the destination folder.
C1_FailFastCreatesNoFolder == [][manifest_path.kind # "file" => folder' = folder]_vars

\* the only job writing to its destination
Alone(j) == \A k \in DOMAIN jobs : k # j => jobs[k].dest_file # jobs[j].dest_file

\* C2: a call of download_series whose destination was absent when it was
\* called (it issued a request) and to which the service never delivered a
\* complete series (it did not return from line 72) leaves no file at its
\* destination when it returns.
C2_FailedDownloadLeavesNoFile ==
  \A j \in DOMAIN jobs :
    (jobs[j].pc = "returned" /\ jobs[j].requests > 0 /\ jobs[j].ret_line # 72 /\ Alone(j))
      => files[jobs[j].dest_file] = "absent"

\* the parsed manifest has no usable retry count: no noOfrRetry key, no
\* value, or a value that is no integer
RetryEntryUnusable ==
  LET data == parse_manifest(manifest_path.lines)
  IN \/ RetryKey \notin DOMAIN data
     \/ data[RetryKey] = <<>>
     \/ ~IsIntLiteral(data[RetryKey][1])

\* C3: with no usable retry count in the manifest, the orchestrator does not
\* raise when it reads the retry count, and it goes on with a budget of 0.
C3_RetryBudgetDefaultsToZero ==
  (manifest_path.kind = "file" /\ RetryEntryUnusable)
    => /\ ~(pc_main = "raised" /\ error.line = 114)
       /\ (pc_main \in {"submit", "as_completed", "done"} => no_of_retries = 0)

\* C4 as claimed: no two jobs that run at the same time have the same
\* destination file, whatever the manifest lists.
C4_DistinctWriteTargets ==
  \A i, j \in DOMAIN jobs :
    (i # j /\ Running(i) /\ Running(j)) => jobs[i].dest_file # jobs[j].dest_file

NoRepeats(ids) == \A i, j \in 1..Len(ids) : i # j => ids[i] # ids[j]

\* C4 as amended: when the series list holds no identifier twice, no two
\* jobs that run at the same time have the same destination file.
C4_DistinctWriteTargetsNoRepeats ==
  NoRepeats(series_ids_to_download) =>
    \A i, j \in DOMAIN jobs :
      (i # j /\ Running(i) /\ Running(j)) => jobs[i].dest_file # jobs[j].dest_file

\* two jobs for different series are writing their files at the same time
C4_Witness ==
  \E i, j \in DOMAIN jobs :
    /\ jobs[i].series_id # jobs[j].series_id
    /\ jobs[i].pc = "stream" /\ jobs[j].pc = "stream"

\* C5: one call issues at most max_retries + 1 requests, and exactly that
\* many when it returns with no file ever created at its destination.
C5_RetryBound ==
  \A j \in DOMAIN jobs :
    /\ jobs[j].requests <= jobs[j].max_retries + 1
    /\ (jobs[j].pc = "returned" /\ files[jobs[j].dest_file] = "absent")
         => jobs[j].requests = jobs[j].max_retries + 1

\* a call with a retry budget has used it up and left no file
C5_Witness ==
  \E j \in DOMAIN jobs :
    /\ jobs[j].pc = "returned" /\ jobs[j].ret_line = 85
    /\ jobs[j].max_retries >= 1
    /\ jobs[j].requests = jobs[j].max_retries + 1
    /\ files[jobs[j].dest_file] = "absent"

\* C6: when the destination exists at the first check of a call, the call
\* returns the destination path in that step, having issued no request, and
\* the file is left as it is.
C6_ShortCircuit ==
  [][\A j \in DOMAIN jobs :
       (/\ jobs[j].pc = "try" /\ jobs[j].retry_count = 0
        /\ files[jobs[j].dest_file] # "absent"
        /\ jobs'[j] # jobs[j])
         => /\ jobs'[j].pc = "returned"
            /\ jobs'[j].result = jobs[j].dest_file
            /\ jobs'[j].requests = 0
            /\ files' = files]_vars

\* a second call for a destination that a first call populated has returned
\* without a request
C6_Witness ==
  \E i, j \in DOMAIN jobs :
    /\ i # j /\ jobs[i].dest_file = jobs[j].dest_file
    /\ jobs[i].pc = "returned" /\ jobs[i].ret_line = 72
    /\ jobs[j].pc = "returned" /\ jobs[j].ret_line = 53 /\ jobs[j].requests = 0
    /\ files[jobs[j].dest_file] = "complete"

\* the response passed the status check and the check of the type tag
PassedChecks(r) ==
  /\ r.connected /\ r.status < 400
  /\ r.metadata.present /\ r.metadata.Type # <<>> /\ r.metadata.Type[1] = "ZIP"

\* C7: an attempt whose response is successful but not tagged "ZIP" changes
\* no file and costs one unit of the retry budget, ending in the sleep or the
\* final return as after any failure; and a file changes only in a step of a
\* job whose current response passed both checks.
C7_ContentTypeGuard ==
  [][/\ \A j \in DOMAIN jobs :
          (/\ jobs[j].pc = "response" /\ jobs'[j] # jobs[j]
           /\ jobs[j].response.connected /\ jobs[j].response.status < 400
           /\ ~PassedChecks(jobs[j].response))
            => /\ files' = files
               /\ jobs'[j].retry_count = jobs[j].retry_count + 1
               /\ jobs'[j].pc \in {"sleep", "returned"}
               /\ (jobs'[j].pc = "returned" <=> jobs'[j].retry_count > jobs[j].max_retries)
     /\ \A p \in DOMAIN files :
          files'[p] # files[p]
            => \E j \in DOMAIN jobs :
                 /\ jobs[j].dest_file = p /\ jobs'[j] # jobs[j]
                 /\ PassedChecks(jobs[j].response)]_vars

\* the last attempt of a call with a retry budget has met a successful
\* response that has no metadata header, with no file at the destination
C7_Witness ==
  \E j \in DOMAIN jobs :
    /\ jobs[j].pc = "response"
    /\ jobs[j].response.connected /\ jobs[j].response.status = 200
    /\ ~jobs[j].response.metadata.present
    /\ jobs[j].retry_count >= 1 /\ jobs[j].retry_count = jobs[j].max_retries
    /\ files[jobs[j].dest_file] = "absent"

\* how far a call has come: its failures first, then its place in the attempt
Progress(job) ==
  IF job.pc \in {"returned", "raised"} THEN 4 * (job.max_retries + 2)
  ELSE 4 * job.retry_count
         + (CASE job.pc = "pending" -> 0
              [] job.pc = "sleep" -> 0
              [] job.pc = "try" -> 1
              [] job.pc = "response" -> 2
              [] job.pc = "stream" -> 3)

\* C8: a call never propagates an error and a call that returned returned
\* its destination path; it terminates: a running call always has a next
\* step, and every step of a call brings it closer to its return.
C8_FetcherNeverRaises ==
  /\ [](\A j \in DOMAIN jobs :
          /\ jobs[j].pc # "raised"
          /\ (jobs[j].pc = "returned" => jobs[j].result = jobs[j].dest_file)
          /\ (Running(j) => ENABLED Worker(j)))
  /\ [][\A j \in DOMAIN jobs :
          jobs'[j] # jobs[j]
            => /\ Progress(jobs[j]) < Progress(jobs'[j])
               /\ Progress(jobs'[j]) <= 4 * (jobs[j].max_retries + 2)]_vars

\* a call has returned its path after a failure of the write to disk
C8_Witness ==
  \E j \in DOMAIN jobs :
    /\ jobs[j].pc = "returned" /\ jobs[j].result = jobs[j].dest_file
    /\ jobs[j].retry_count >= 1
    /\ files[jobs[j].dest_file] = "partial"

\* download_from_manifest raised during its setup (not from a job's result)
SetupFailed == pc_main = "raised" /\ error.line # 122

\* C9: when the orchestrator raises during setup, no job has been submitted
\* (so no request was made); and as long as no job is submitted no series
\* file changes.
C9_SetupErrorsBeforeDownloads ==
  /\ [](SetupFailed => jobs = <<>>)
  /\ [][jobs' = <<>> => files' = files]_vars

\* the setup failed on the retry count of a manifest that lists series
C9_Witness ==
  /\ SetupFailed /\ error.line = 114
  /\ series_ids_to_download # <<>>
  /\ jobs = <<>>

\* C10: once a valid manifest is parsed into a job list and a retry budget,
\* the orchestrator reaches 'Done.', and no failure of a job is raised by it.
C10_BatchCompletes ==
  /\ [](pc_main = "raised" => error.line # 122)
  /\ (pc_main = "submit") ~> (pc_main = "done")

\* the run is done although every one of its several jobs failed for good
C10_Witness ==
  /\ pc_main = "done"
  /\ Len(jobs) >= 2
  /\ \A j \in DOMAIN jobs : jobs[j].ret_line = 85 /\ files[jobs[j].dest_file] # "complete"

\* C11: 'Done.' is reported only after every dispatched job has returned, one
\* job per listed series; a result is collected only from a job that has
\* returned, and a returned job can be collected whatever the state of the
\* jobs submitted before it (completion order, not submission order).
C11_CompletionOrdering ==
  /\ \A j \in collected : jobs[j].pc = "returned"
  /\ pc_main = "done" =>
       /\ Len(jobs) = Len(series_ids_to_download)
       /\ collected = DOMAIN jobs
       /\ \A j \in DOMAIN jobs : jobs[j].pc = "returned"
  /\ pc_main = "as_completed" =>
       \A j \in DOMAIN jobs \ collected : jobs[j].pc = "returned" => ENABLED Collect(j)

\* the second job's result is collected while the first job is still running
C11_Witness ==
  /\ pc_main = "as_completed"
  /\ Len(jobs) = 2
  /\ collected = {2}
  /\ Running(1)

\* C12: at every moment at most njobs calls are executing; a pending call is
\* started only while fewer than njobs are executing; a call that executes
\* keeps executing until it returns, a returned call stays returned, and no
\* submitted call is ever dropped.
C12_BoundedParallelism ==
  /\ [](Cardinality({j \in DOMAIN jobs : Running(j)}) <= njobs)
  /\ [][/\ Len(jobs') >= Len(jobs)
        /\ \A j \in DOMAIN jobs :
             /\ jobs[j].pc = "pending" /\ jobs'[j].pc # "pending" =>
                  Cardinality({k \in DOMAIN jobs : Running(k)}) < njobs
             /\ Running(j) => Running(j)' \/ jobs'[j].pc = "returned"
             /\ jobs[j].pc = "returned" => jobs'[j] = jobs[j]]_vars

\* the only worker is busy with the first call while the second one waits
C12_Witness ==
  /\ njobs = 1
  /\ pc_main = "as_completed"
  /\ Len(jobs) = 2
  /\ Running(1)
  /\ jobs[1].retry_count >= 1
  /\ jobs[2].pc = "pending"

\* C13: for every manifest that is read, the submitted calls are, in order,
\* one per entry of the parsed ListOfSeriesToDownload list (none when the key
\* is missing or its list is empty), each with the destination
\* <series_id>.zip in the destination folder and the run's retry count: all
\* of them are submitted by the time the orchestrator waits, reports
\* completion or stops after parsing; when 'Done.' is reported every call
\* that returned from a finished download has its file present, and the
\* folder holds the copy of the manifest.
C13_FanOut ==
  LET listed == IF ListKey \in DOMAIN manifest_data THEN manifest_data[ListKey] ELSE <<>>
      parsed == pc_main \in {"as_completed", "done"} \/ (pc_main = "raised" /\ error.line > 22)
  IN /\ Len(jobs) <= Len(listed)
     /\ \A i \in DOMAIN jobs :
          /\ jobs[i].series_id = listed[i]
          /\ jobs[i].dest_file = listed[i] \o <<".zip">>
          /\ jobs[i].max_retries = no_of_retries
     /\ parsed => Len(jobs) = Len(listed)
     /\ pc_main = "done" =>
          /\ folder /\ copied
          /\ \A i \in DOMAIN jobs : jobs[i].ret_line = 72 => files[jobs[i].dest_file] # "absent"

\* C15: whenever a call has been submitted the destination folder exists and
\* holds the copy of the manifest, so both are in place before the first
\* call begins; and creating the folder never fails: on a folder that exists
\* already the step goes on to the check of the manifest.
C15_SetupPrecedesFetching ==
  /\ [](jobs # <<>> => folder /\ copied)
  /\ [][pc_main = "mkdir" /\ folder /\ pc_main' # "mkdir" =>
          pc_main' = "is_file" /\ folder' /\ error' = NoError]_vars

\* the first call begins its first attempt in a folder that existed, and held
\* a file of another series, before the run
C15_Witness ==
  /\ jobs # <<>>
  /\ jobs[1].pc = "try"
  /\ \A j \in DOMAIN jobs : jobs[j].requests = 0
  /\ files[jobs[1].dest_file] = "absent"
  /\ \E p \in Paths : files[p] = "complete"

\* C17: in every call the number of sleeps done is the number of attempts
\* begun less one (none before the first attempt, one between two consecutive
\* attempts, none after the attempt the call returns from); a call sleeps
\* only with retries left; and a call that gave up after failing
\* max_retries + 1 attempts has slept exactly max_retries times.
C17_FixedBackoffPlacement ==
  \A j \in DOMAIN jobs :
    /\ jobs[j].sleeps = (IF jobs[j].attempts = 0 THEN 0 ELSE jobs[j].attempts - 1)
    /\ jobs[j].pc = "pending" => jobs[j].attempts = 0
    /\ jobs[j].pc = "sleep" => jobs[j].retry_count <= jobs[j].max_retries
    /\ jobs[j].ret_line = 85 /\ jobs[j].requests = jobs[j].max_retries + 1 =>
         /\ jobs[j].attempts = jobs[j].max_retries + 1
         /\ jobs[j].sleeps = jobs[j].max_retries

\* a call with one retry gave up after two failed requests and one sleep
C17_Witness ==
  \E j \in DOMAIN jobs :
    /\ jobs[j].ret_line = 85
    /\ jobs[j].max_retries = MaxRetries
    /\ jobs[j].requests = MaxRetries + 1
    /\ jobs[j].sleeps = MaxRetries

\* C18: in every attempt, the first or a retry, a call whose destination
\* exists when the attempt starts returns the path at once: the step issues
\* no request, leaves the retry count and every file as they are, and the
\* call never reaches the request or the open of that attempt.
C18_ExistsCheckEveryAttempt ==
  [][\A j \in DOMAIN jobs :
       jobs[j].pc = "try" /\ files[jobs[j].dest_file] # "absent" /\ jobs'[j] # jobs[j] =>
         /\ jobs'[j].pc = "returned"
         /\ jobs'[j].ret_line = 53
         /\ jobs'[j].result = jobs[j].dest_file
         /\ jobs'[j].requests = jobs[j].requests
         /\ jobs'[j].retry_count = jobs[j].retry_count
         /\ jobs'[j].sleeps = jobs[j].sleeps
         /\ files' = files]_vars

\* a retry found the partial file its own failed attempt had left, and
\* returned it after one request with a retry still unused
C18_Witness ==
  \E j \in DOMAIN jobs :
    /\ Alone(j)
    /\ jobs[j].ret_line = 53
    /\ jobs[j].attempts = 2
    /\ jobs[j].requests = 1
    /\ jobs[j].retry_count = 1
    /\ jobs[j].retry_count <= jobs[j].max_retries
    /\ files[jobs[j].dest_file] = "partial"

\* ------------------------------------------------- the parser's claims
\* parse_manifest has returned
Parsed ==
  \/ pc_main \in {"submit", "as_completed", "done"}
  \/ pc_main = "raised" /\ error.line \in {114, 122}

\* the lines of a manifest that hold a '='
EqLines(lines) == {i \in DOMAIN lines : \E c \in DOMAIN lines[i] : lines[i][c] = "="}

\* the place of the first '=' of a line that holds one
FirstEq(line) == CHOOSE c \in DOMAIN line : line[c] = "=" /\ \A b \in 1..(c - 1) : line[b] # "="

\* the trimmed text before, and after, the first '=' of a line
KeyText(line) == strip(SubSeq(line, 1, FirstEq(line) - 1))
ValueText(line) == strip(SubSeq(line, FirstEq(line) + 1, Len(line)))

\* the trimmed texts of the lines that are not blank, in order
RECURSIVE NonBlank(_)
NonBlank(lines) ==
  IF lines = <<>> THEN <<>>
  ELSE (IF strip(Head(lines)) # <<>> THEN <<strip(Head(lines))>> ELSE <<>>)
         \o NonBlank(Tail(lines))

\* where the block of the '=' line f ends: before the next '=' line, or at the end
BlockEnd(lines, f) ==
  LET later == {i \in EqLines(lines) : i > f}
  IN IF later = {} THEN Len(lines)
     ELSE (CHOOSE i \in later : \A k \in later : i <= k) - 1

\* the values of the block of the '=' line f: the value on the line if there
\* is one, then the non-blank lines up to the end of the block
Block(lines, f) ==
  (IF ValueText(lines[f]) # <<>> THEN <<ValueText(lines[f])>> ELSE <<>>)
    \o NonBlank(SubSeq(lines, f + 1, BlockEnd(lines, f)))

\* C14: a manifest whose only '=' line has a non-empty key K parses to the
\* single entry K -> the value after the first '=' of that line (if it is
\* not empty), then the lines after it that are not blank, trimmed, in
\* order; the lines before it create nothing; and a manifest with no '='
\* line parses to the empty mapping.
C14_ParsingExamples ==
  Parsed =>
    LET lines == manifest_path.lines
        E == EqLines(lines)
    IN /\ E = {} => DOMAIN manifest_data = {}
       /\ \A f \in E :
            E = {f} /\ KeyText(lines[f]) # <<>> =>
              /\ DOMAIN manifest_data = {KeyText(lines[f])}
              /\ manifest_data[KeyText(lines[f])] = Block(lines, f)

\* a line before the key, the key with a value that holds a second '=', and
\* a padded line after it
C14_Witness ==
  /\ Parsed
  /\ manifest_path.lines = << <<"1.2.3">>, <<"K", "=", "w", "=", "v">>, <<" ", "4.5.6", "\t">> >>
  /\ DOMAIN manifest_data = {<<"K">>}
  /\ manifest_data[<<"K">>] = << <<"w", "=", "v">>, <<"4.5.6">> >>

\* C16: for every manifest and every '=' line of it, whatever its key (the
\* empty key too): unless a later '=' line has the same key, the parsed
\* mapping holds under that key the value of the line, then every non-blank
\* line after it up to the next '=' line, in order.
C16_ActiveKeyAppend ==
  Parsed =>
    LET lines == manifest_path.lines
        E == EqLines(lines)
    IN \A f \in E :
         (\A i \in E : i > f => KeyText(lines[i]) # KeyText(lines[f])) =>
           /\ KeyText(lines[f]) \in DOMAIN manifest_data
           /\ manifest_data[KeyText(lines[f])] = Block(lines, f)

\* C19: the parsed mapping has exactly the keys of the '=' lines, and holds
\* under each key what the block of the key's last '=' line parses to on its
\* own (for a key that is not empty: the value of that line, then the
\* non-blank lines of its block), nothing of the earlier blocks of the key;
\* the series list is that of the last ListOfSeriesToDownload block.
C19_LastOccurrenceWins ==
  Parsed =>
    LET lines == manifest_path.lines
        E == EqLines(lines)
        Last(k) == CHOOSE i \in E :
                     KeyText(lines[i]) = k /\ \A n \in E : KeyText(lines[n]) = k => n <= i
    IN /\ DOMAIN manifest_data = {KeyText(lines[i]) : i \in E}
       /\ \A k \in DOMAIN manifest_data :
            /\ manifest_data[k] =
                 parse_manifest(SubSeq(lines, Last(k), BlockEnd(lines, Last(k))))[k]
            /\ k # <<>> => manifest_data[k] = Block(lines, Last(k))
       /\ series_ids_to_download =
            (IF \E i \in E : KeyText(lines[i]) = ListKey
             THEN Block(lines, Last(ListKey)) ELSE <<>>)

\* the list key comes twice: the identifier of its first line is gone, the
\* list is the line after its second one
C19_Witness ==
  /\ Parsed
  /\ manifest_path.lines = << <<"ListOfSeriesToDownload", "=", "1.2.3">>,
                              <<"ListOfSeriesToDownload", "=">>,
                              <<" ", "4.5.6", "\t">> >>
  /\ series_ids_to_download = << <<"4.5.6">> >>

====
